---- MODULE Spec2Model ----
(***************************************************************************)
(* A model of the influx-spout writer (src/writer/writer.go): the          *)
(* lifecycle (StartWriter / Stop), the worker pool with its per-worker     *)
(* batch buffer, the per-subscription monitor and the statistician.        *)
(*                                                                         *)
(* writer.go uses three packages of the repository whose code is not in    *)
(* src/: the batch buffer (newBatchBuffer, Write, Writes, Size, Age, Data, *)
(* Reset), the rule set (filter.RuleSet: Count, Lookup) and the counters   *)
(* (stats.Stats: Inc, Max).  Those are modelled from spec.md and are       *)
(* marked so where they are defined.                                       *)
(***************************************************************************)
EXTENDS Integers, Sequences, FiniteSets, TLC

(***************************************************************************)
(* Bounds of the model.                                                    *)
(***************************************************************************)
MaxWorkers == 2         \* largest c.Workers a run is configured with
MaxSubjects == 2        \* largest len(c.NATSSubject)
JobsCap == 1            \* capacity of the jobs channel (1024 in the code)
MaxMsgs == 2            \* messages the bus delivers in one run
MaxTime == 3            \* the clock stops advancing here (seconds)
MaxPayloadLen == 4      \* longest payload of the line-filter runs
MaxLoops == 3           \* most workers and monitors together in a lifecycle run
MaxDropped == 12        \* largest dropped-message total a subscription reports
MaxPendingSeen == 2     \* largest max-pending-bytes value a subscription reports
MaxContinue == 1        \* the count of consecutive `continue`s saturates here

(***************************************************************************)
(* Configuration (config.Config): the batch thresholds of most runs, and   *)
(* those of the runs that deliver ScenarioMessages one-line messages.      *)
(***************************************************************************)
BatchMessages == 2      \* c.BatchMessages  (maxCount)
BatchMaxBytes == 4      \* w.batchMaxBytes  (maxBytes)
BatchMaxAge == 2        \* w.batchMaxAge    (maxAge, seconds)

ScenarioMessages == 3   \* c.BatchMessages of the scenario runs
ScenarioMaxBytes == 8   \* w.batchMaxBytes of the scenario runs
ScenarioMaxAge == 5     \* w.batchMaxAge of the scenario runs

(***************************************************************************)
(* Program constants.                                                      *)
(***************************************************************************)
WorkerWake == 1         \* time.After(time.Second) in worker
MonitorWake == 1        \* time.After(time.Second) in monitorSub
StatWake == 3           \* time.After(3 * time.Second) in startStatistician
StatusLimit == 300      \* resp.StatusCode > 300 in sendBatch

NL == "\n"
Chars == {"a", "b", NL}
Workers == 1..MaxWorkers
Subjects == 1..MaxSubjects

VARIABLES
    c,          \* the configuration: [Workers, Subjects, BatchMessages,
                \* BatchMaxBytes, BatchMaxAge]
    feed,       \* what the environment does in this run: [payloads, msgs, drops,
                \* pendings, responses, faults]
    rules,      \* w.rules: the set of first bytes that some rule matches
    now,        \* the wall clock, in seconds
    mainPc,     \* where the caller's thread is in StartWriter / Stop
    err,        \* StartWriter's named result err is non-nil
    subIdx,     \* the subject StartWriter's subscribe loop is at
    nc,         \* w.nc: "nil", "open" or "closed"
    stop,       \* w.stop is closed
    closes,     \* how many times close(w.stop) ran
    wg,         \* w.wg's counter
    jobs,       \* the jobs channel's buffer
    delivered,  \* messages the bus has handed to the callback so far
    cb,         \* per subject: the message its callback is sending, or NoMsg
    sub,        \* per subject: "none", "active", "unsubscribed"
    subFailing, \* per subject: the subscription is invalid, its queries return an error
    dropped,    \* per subject: the bus-side dropped-message total
    wpc,        \* per worker: position in the worker loop
    batch,      \* per worker: the batch buffer
    bunits,     \* per worker: which units (job, index) the buffer holds
    wtimer,     \* per worker: seconds waited in its select
    lastUnits,  \* per worker: the units batchWrite was called with for the job in hand
    wjob,       \* per worker: the job in hand (j) from its receive to the flush
                \* decision, or NoMsg
    posted,     \* per worker: the units of all its POST bodies, in order
    lastResp,   \* the response of the most recent POST
    stats,      \* the counters: received, write_requests, failed_writes, max_pending
    mpc,        \* per subject: position in monitorSub
    mlast,      \* per subject: monitorSub's last
    mdrop,      \* per subject: monitorSub's drop
    mtimer,     \* per subject: seconds waited in the monitor's select
    mcont,      \* per subject: `continue`s since the monitor last waited
    msample,    \* per subject: the dropped total the monitor sampled last
    mquiet,     \* per subject: some compared sample was equal to the one before
    dropEvents, \* per subject: the deltas signalDrop logged
    observed,   \* the max-pending values passed to stats.Max
    spc,        \* position of the statistician
    stimer,     \* seconds waited in the statistician's select
    lateBusOps  \* bus operations (publish, query, unsubscribe) made after nc.Close

vars == <<c, feed, rules, now, mainPc, err, subIdx, nc, stop, closes, wg, jobs, delivered,
          cb, sub, subFailing, dropped, wpc, batch, bunits, wtimer, lastUnits,
          wjob, posted, lastResp, stats, mpc,
          mlast, mdrop, mtimer, mcont, msample, mquiet, dropEvents, observed, spc, stimer,
          lateBusOps>>

lifeVars == <<mainPc, err, subIdx, nc, stop, closes, wg>>
busVars == <<sub, subFailing, dropped>>
feedVars == <<jobs, delivered, cb>>
workerVars == <<wpc, batch, bunits, wtimer, lastUnits, wjob, posted,
                lastResp>>
monitorVars == <<mpc, mlast, mdrop, mtimer, mcont, msample, mquiet, dropEvents, observed>>
statVars == <<spc, stimer>>

(***************************************************************************)
(* The batch buffer.  Its code is not in src/; it is modelled from         *)
(* spec.md section 4.1: bytes, writeCount, createdAt, with createdAt unset *)
(* while the buffer is empty.  An unset createdAt is Go's zero time.Time,  *)
(* which lies far in the past, so Age of an unset buffer is far larger     *)
(* than any configured maximum age.                                        *)
(***************************************************************************)
ZeroTime == -1000

newBatchBuffer == [buf |-> <<>>, writes |-> 0, created |-> ZeroTime]

Write(b, data, t) ==
    [buf |-> b.buf \o data,
     writes |-> b.writes + 1,
     created |-> IF b.created = ZeroTime THEN t ELSE b.created]

Writes(b) == b.writes

Size(b) == Len(b.buf)

Age(b, t) == t - b.created

Data(b) == b.buf

Reset(b) == newBatchBuffer

(***************************************************************************)
(* The rule set.  Its code is not in src/; spec.md gives Accept(line) and  *)
(* RuleCount().  A rule here matches a line by its first byte, and Lookup  *)
(* returns the index of the matching rule or -1.                           *)
(***************************************************************************)
RuleBytes == {"a", "b"}

Count == Cardinality(rules)

Lookup(line) == IF Len(line) > 0 /\ line[1] \in rules THEN 0 ELSE -1

(***************************************************************************)
(* The counters.  Their code is not in src/; spec.md section 3 and 9 give  *)
(* atomic increment and atomic set-if-greater.                             *)
(***************************************************************************)
StatsNew == [received |-> 0, write_requests |-> 0, failed_writes |-> 0,
             max_pending |-> 0]

Inc(st, name) == [st EXCEPT ![name] = @ + 1]

Max(st, name, v) == [st EXCEPT ![name] = IF v > @ THEN v ELSE @]

(***************************************************************************)
(* bytes.SplitAfter(data, "\n"): cut after every newline; the rest of the  *)
(* data, empty or not, is the last piece.                                  *)
(***************************************************************************)
NLIndex(s) ==
    IF \E i \in 1..Len(s) : s[i] = NL
    THEN CHOOSE i \in 1..Len(s) : s[i] = NL /\ \A j \in 1..(i - 1) : s[j] # NL
    ELSE 0

RECURSIVE SplitAfter(_)
SplitAfter(s) ==
    IF NLIndex(s) = 0
    THEN <<s>>
    ELSE <<SubSeq(s, 1, NLIndex(s))>> \o SplitAfter(SubSeq(s, NLIndex(s) + 1, Len(s)))

\* writer.go filterLine
filterLine(line) ==
    IF Len(line) = 0 THEN FALSE ELSE Lookup(line) # -1

\* bytes.Split: the pieces without their newline (used by a mutant only)
RECURSIVE SplitDrop(_)
SplitDrop(s) ==
    IF NLIndex(s) = 0
    THEN <<s>>
    ELSE <<SubSeq(s, 1, NLIndex(s) - 1)>> \o SplitDrop(SubSeq(s, NLIndex(s) + 1, Len(s)))

BatchWriteUnits_Split(data) ==
    IF Count = 0 THEN <<data>> ELSE SelectSeq(SplitDrop(data), filterLine)

\* writer.go getBatchWriteFunc: the units batchWrite is called with, in order
BatchWriteUnits(data) ==
    IF Count = 0 THEN <<data>> ELSE SelectSeq(SplitAfter(data), filterLine)

\* a variant that writes the units of a job last to first (used by a mutant
\* only)
RECURSIVE FoldWrites_Reverse(_, _, _, _, _)
FoldWrites_Reverse(b, units, faults, i, t) ==
    IF i > Len(units) THEN b
    ELSE LET r == FoldWrites_Reverse(b, units, faults, i + 1, t)
         IN  IF i \in faults THEN r ELSE Write(r, units[i], t)

\* the inner batchWrite over all units of one job: a unit whose Write fails
\* is logged and dropped
RECURSIVE FoldWrites(_, _, _, _, _)
FoldWrites(b, units, faults, i, t) ==
    IF i > Len(units) THEN b
    ELSE FoldWrites(IF i \in faults THEN b ELSE Write(b, units[i], t),
                    units, faults, i + 1, t)

RECURSIVE FoldUnits(_, _, _, _, _)
FoldUnits(u, id, n, faults, i) ==
    IF i > n THEN u
    ELSE FoldUnits(IF i \in faults THEN u ELSE Append(u, <<id, i>>),
                   id, n, faults, i + 1)

\* a variant that flushes only when the count exceeds c.BatchMessages (used
\* by a mutant only)
shouldSendBatch_CountExceeds(b, t) ==
    \/ Writes(b) > c.BatchMessages
    \/ Size(b) >= c.BatchMaxBytes
    \/ Age(b, t) >= c.BatchMaxAge

\* a variant without the size test (used by a mutant only)
shouldSendBatch_NoSize(b, t) ==
    \/ Writes(b) >= c.BatchMessages
    \/ Age(b, t) >= c.BatchMaxAge

\* writer.go shouldSendBatch
shouldSendBatch(b, t) ==
    \/ Writes(b) >= c.BatchMessages
    \/ Size(b) >= c.BatchMaxBytes
    \/ Age(b, t) >= c.BatchMaxAge

(***************************************************************************)
(* HTTP: a POST ends in a transport error or in a response with a status.  *)
(***************************************************************************)
StatusCodes == {299, 300, 500}

TransportError == [neterr |-> TRUE, status |-> 0]

Responses == {TransportError} \cup {[neterr |-> FALSE, status |-> s] : s \in StatusCodes}

NoResp == [neterr |-> FALSE, status |-> 0]

\* writer.go sendBatch: TRUE when it returns an error
sendBatch(resp) == resp.neterr \/ resp.status > StatusLimit

\* what spec.md calls a failed attempt: a transport error or a status >= 300
FailedAttempt(resp) == resp.neterr \/ resp.status >= 300

NoMsg == [id |-> 0, data |-> <<>>]

(***************************************************************************)
(* The clock.                                                              *)
(***************************************************************************)
\* one second passes: every pending time.After has one second less to go
Elapse(t, waiting, wake) == IF waiting /\ t < wake THEN t + 1 ELSE t

Tick ==
    /\ now < MaxTime
    /\ now' = now + 1
    /\ wtimer' = [w \in Workers |-> Elapse(wtimer[w], wpc[w] = "select", WorkerWake)]
    /\ mtimer' = [s \in Subjects |-> Elapse(mtimer[s], mpc[s] = "select", MonitorWake)]
    /\ stimer' = Elapse(stimer, spc = "select", StatWake)
    /\ UNCHANGED <<c, feed, rules, lifeVars, busVars, feedVars, wpc, batch, bunits,
                   lastUnits, wjob, posted, lastResp, stats, mpc, mlast, mdrop,
                   mcont, msample, mquiet, dropEvents, observed, spc, lateBusOps>>

(***************************************************************************)
(* The bus: it invokes the subscription callback of StartWriter            *)
(* (jobs <- msg), which blocks while the channel is full.                  *)
(***************************************************************************)
Deliver(s) ==
    /\ sub[s] = "active"
    /\ nc = "open"
    /\ cb[s] = NoMsg
    /\ delivered < feed.msgs
    /\ \E p \in feed.payloads :
         LET msg == [id |-> delivered + 1, data |-> p] IN
         IF Len(jobs) < JobsCap
         THEN jobs' = Append(jobs, msg) /\ cb' = cb
         ELSE jobs' = jobs /\ cb' = [cb EXCEPT ![s] = msg]
    /\ delivered' = delivered + 1
    /\ UNCHANGED <<c, feed, rules, now, lifeVars, busVars, workerVars, stats,
                   monitorVars, statVars, lateBusOps>>

\* a blocked jobs <- msg completes once the channel has room
CallbackSend(s) ==
    /\ cb[s] # NoMsg
    /\ Len(jobs) < JobsCap
    /\ jobs' = Append(jobs, cb[s])
    /\ cb' = [cb EXCEPT ![s] = NoMsg]
    /\ UNCHANGED <<c, feed, rules, now, lifeVars, busVars, delivered, workerVars,
                   stats, monitorVars, statVars, lateBusOps>>

(***************************************************************************)
(* worker (writer.go 145-183).                                             *)
(***************************************************************************)
\* a variant that reads the head of the channel without taking it (used by a
\* mutant only)
WorkerRecv_Peek(w) ==
    /\ wpc[w] = "select"
    /\ jobs # <<>>
    /\ wjob' = [wjob EXCEPT ![w] = Head(jobs)]
    /\ wpc' = [wpc EXCEPT ![w] = "job"]
    /\ wtimer' = [wtimer EXCEPT ![w] = 0]
    /\ UNCHANGED <<c, feed, rules, now, lifeVars, busVars, feedVars, batch, bunits,
                   lastUnits, posted, lastResp, stats, monitorVars, statVars,
                   lateBusOps>>

\* case j := <-jobs: the receive takes the job off the channel
WorkerRecv(w) ==
    /\ wpc[w] = "select"
    /\ jobs # <<>>
    /\ wjob' = [wjob EXCEPT ![w] = Head(jobs)]
    /\ jobs' = Tail(jobs)
    /\ wpc' = [wpc EXCEPT ![w] = "job"]
    /\ wtimer' = [wtimer EXCEPT ![w] = 0]
    /\ UNCHANGED <<c, feed, rules, now, lifeVars, busVars, delivered, cb, batch,
                   bunits, lastUnits, posted, lastResp, stats, monitorVars,
                   statVars, lateBusOps>>

\* w.stats.Inc(statReceived); batchWrite(j.Data)
WorkerJob(w) ==
    /\ wpc[w] = "job"
    /\ LET j == wjob[w]
           units == BatchWriteUnits(j.data)
       IN  \E faults \in (IF feed.faults THEN SUBSET (1..Len(units)) ELSE {{}}) :
             /\ batch' = [batch EXCEPT ![w] = FoldWrites(@, units, faults, 1, now)]
             /\ bunits' = [bunits EXCEPT ![w] = FoldUnits(@, j.id, Len(units), faults, 1)]
             /\ lastUnits' = [lastUnits EXCEPT ![w] = units]
    /\ stats' = Inc(stats, "received")
    /\ wpc' = [wpc EXCEPT ![w] = "check"]
    /\ UNCHANGED <<c, feed, rules, now, lifeVars, busVars, feedVars, wtimer, wjob,
                   posted, lastResp, monitorVars, statVars, lateBusOps>>

\* case <-time.After(time.Second)
WorkerTick(w) ==
    /\ wpc[w] = "select"
    /\ wtimer[w] >= WorkerWake
    /\ wpc' = [wpc EXCEPT ![w] = "check"]
    /\ wtimer' = [wtimer EXCEPT ![w] = 0]
    /\ UNCHANGED <<c, feed, rules, now, lifeVars, busVars, feedVars, batch, bunits,
                   lastUnits, wjob, posted, lastResp, stats, monitorVars, statVars, lateBusOps>>

\* a variant that POSTs what is buffered before it returns (used by a mutant
\* only)
WorkerStop_Flush(w) ==
    /\ wpc[w] = "select"
    /\ stop
    /\ wpc' = [wpc EXCEPT ![w] = "done"]
    /\ wg' = wg - 1
    /\ wtimer' = [wtimer EXCEPT ![w] = 0]
    /\ stats' = Inc(stats, "write_requests")
    /\ posted' = [posted EXCEPT ![w] = @ \o bunits[w]]
    /\ batch' = [batch EXCEPT ![w] = Reset(@)]
    /\ bunits' = [bunits EXCEPT ![w] = <<>>]
    /\ UNCHANGED <<c, feed, rules, now, mainPc, err, subIdx, nc, stop, closes,
                   busVars, feedVars, lastUnits, wjob, lastResp, monitorVars,
                   statVars, lateBusOps>>

\* case <-w.stop: return (deferred w.wg.Done())
WorkerStop(w) ==
    /\ wpc[w] = "select"
    /\ stop
    /\ wpc' = [wpc EXCEPT ![w] = "done"]
    /\ wg' = wg - 1
    /\ wtimer' = [wtimer EXCEPT ![w] = 0]
    /\ UNCHANGED <<c, feed, rules, now, mainPc, err, subIdx, nc, stop, closes,
                   busVars, feedVars, batch, bunits, lastUnits, wjob,
                   posted, lastResp, stats, monitorVars,
                   statVars, lateBusOps>>

\* if w.shouldSendBatch(batch) { w.stats.Inc(statWriteRequests) ...
WorkerCheck(w) ==
    /\ wpc[w] = "check"
    /\ IF shouldSendBatch(batch[w], now)
       THEN /\ stats' = Inc(stats, "write_requests")
            /\ wpc' = [wpc EXCEPT ![w] = "send"]
            /\ wtimer' = wtimer
       ELSE /\ stats' = stats
            /\ wpc' = [wpc EXCEPT ![w] = "select"]
            /\ wtimer' = [wtimer EXCEPT ![w] = 0]
    /\ lastUnits' = [lastUnits EXCEPT ![w] = <<>>]
    /\ wjob' = [wjob EXCEPT ![w] = NoMsg]
    /\ UNCHANGED <<c, feed, rules, now, lifeVars, busVars, feedVars, batch, bunits,
                   posted, lastResp, monitorVars, statVars, lateBusOps>>

\* a variant that keeps the batch when the POST failed (used by a mutant only)
WorkerSend_KeepOnError(w) ==
    /\ wpc[w] = "send"
    /\ \E resp \in feed.responses :
         /\ lastResp' = resp
         /\ stats' = IF sendBatch(resp) THEN Inc(stats, "failed_writes") ELSE stats
         /\ batch' = [batch EXCEPT ![w] = IF sendBatch(resp) THEN @ ELSE Reset(@)]
         /\ bunits' = [bunits EXCEPT ![w] = IF sendBatch(resp) THEN @ ELSE <<>>]
    /\ posted' = [posted EXCEPT ![w] = @ \o bunits[w]]
    /\ wpc' = [wpc EXCEPT ![w] = "select"]
    /\ wtimer' = [wtimer EXCEPT ![w] = 0]
    /\ UNCHANGED <<c, feed, rules, now, lifeVars, busVars, feedVars, lastUnits,
                   wjob, monitorVars, statVars, lateBusOps>>

\* a variant in which a failed POST ends the worker (used by a mutant only)
WorkerSend_ReturnOnError(w) ==
    /\ wpc[w] = "send"
    /\ \E resp \in feed.responses :
         /\ lastResp' = resp
         /\ stats' = IF sendBatch(resp) THEN Inc(stats, "failed_writes") ELSE stats
         /\ wpc' = [wpc EXCEPT ![w] = IF sendBatch(resp) THEN "done" ELSE "select"]
         /\ wg' = IF sendBatch(resp) THEN wg - 1 ELSE wg
    /\ posted' = [posted EXCEPT ![w] = @ \o bunits[w]]
    /\ batch' = [batch EXCEPT ![w] = Reset(@)]
    /\ bunits' = [bunits EXCEPT ![w] = <<>>]
    /\ wtimer' = [wtimer EXCEPT ![w] = 0]
    /\ UNCHANGED <<c, feed, rules, now, mainPc, err, subIdx, nc, stop, closes,
                   busVars, feedVars, lastUnits, wjob, monitorVars, statVars,
                   lateBusOps>>

\* ... if err := w.sendBatch(batch, client); err != nil { Inc(statFailedWrites) }
\*     batch.Reset() }
WorkerSend(w) ==
    /\ wpc[w] = "send"
    /\ \E resp \in feed.responses :
         /\ lastResp' = resp
         /\ stats' = IF sendBatch(resp) THEN Inc(stats, "failed_writes") ELSE stats
    /\ posted' = [posted EXCEPT ![w] = @ \o bunits[w]]
    /\ batch' = [batch EXCEPT ![w] = Reset(@)]
    /\ bunits' = [bunits EXCEPT ![w] = <<>>]
    /\ wpc' = [wpc EXCEPT ![w] = "select"]
    /\ wtimer' = [wtimer EXCEPT ![w] = 0]
    /\ UNCHANGED <<c, feed, rules, now, lifeVars, busVars, feedVars, lastUnits,
                   wjob, monitorVars, statVars, lateBusOps>>

(***************************************************************************)
(* The bus side of a subscription: its dropped-message total only grows,   *)
(* and the subscription may become invalid, after which its queries return *)
(* an error.                                                               *)
(***************************************************************************)
DropSteps == {5, 7}

DroppedOnError == -1    \* what sub.Dropped() returns beside an error

BusDrop(s) ==
    /\ sub[s] = "active"
    /\ \E d \in feed.drops :
         /\ dropped[s] + d <= MaxDropped
         /\ dropped' = [dropped EXCEPT ![s] = @ + d]
    /\ UNCHANGED <<c, feed, rules, now, lifeVars, sub, subFailing, feedVars,
                   workerVars, stats, monitorVars, statVars, lateBusOps>>

BusFail(s) ==
    /\ sub[s] = "active"
    /\ ~subFailing[s]
    /\ subFailing' = [subFailing EXCEPT ![s] = TRUE]
    /\ UNCHANGED <<c, feed, rules, now, lifeVars, sub, dropped, feedVars,
                   workerVars, stats, monitorVars, statVars, lateBusOps>>

\* a bus operation made when the connection is already closed
Late == lateBusOps \/ nc = "closed"

(***************************************************************************)
(* monitorSub (writer.go 256-291) and signalDrop (244-254).                *)
(***************************************************************************)
\* last, err := sub.Dropped(); drop := last
MonitorInit(s) ==
    /\ mpc[s] = "init"
    /\ LET v == IF subFailing[s] THEN DroppedOnError ELSE dropped[s] IN
         /\ mlast' = [mlast EXCEPT ![s] = v]
         /\ mdrop' = [mdrop EXCEPT ![s] = v]
         /\ msample' = [msample EXCEPT ![s] = v]
    /\ mpc' = [mpc EXCEPT ![s] = "poll"]
    /\ lateBusOps' = Late
    /\ UNCHANGED <<c, feed, rules, now, lifeVars, busVars, feedVars, workerVars,
                   stats, mtimer, mcont, mquiet, dropEvents, observed, statVars>>

\* a variant that sets the gauge instead of raising it (used by a mutant only)
MonitorMaxPending_Set(s) ==
    /\ mpc[s] = "poll"
    /\ IF subFailing[s]
       THEN /\ mpc' = [mpc EXCEPT ![s] = "continue"]
            /\ UNCHANGED <<stats, observed>>
       ELSE /\ \E v \in feed.pendings :
                 /\ stats' = [stats EXCEPT !.max_pending = v]
                 /\ observed' = observed \cup {v}
            /\ mpc' = [mpc EXCEPT ![s] = "dropped"]
    /\ lateBusOps' = Late
    /\ UNCHANGED <<c, feed, rules, now, lifeVars, busVars, feedVars, workerVars,
                   mlast, mdrop, mtimer, mcont, msample, mquiet, dropEvents, statVars>>

\* _, maxBytes, err := sub.MaxPending(); if err != nil { continue }
\* w.stats.Max(statMaxPending, maxBytes)
MonitorMaxPending(s) ==
    /\ mpc[s] = "poll"
    /\ IF subFailing[s]
       THEN /\ mpc' = [mpc EXCEPT ![s] = "continue"]
            /\ UNCHANGED <<stats, observed>>
       ELSE /\ \E v \in feed.pendings :
                 /\ stats' = Max(stats, "max_pending", v)
                 /\ observed' = observed \cup {v}
            /\ mpc' = [mpc EXCEPT ![s] = "dropped"]
    /\ lateBusOps' = Late
    /\ UNCHANGED <<c, feed, rules, now, lifeVars, busVars, feedVars, workerVars,
                   mlast, mdrop, mtimer, mcont, msample, mquiet, dropEvents, statVars>>

\* a variant that logs the new total instead of the delta (used by a mutant only)
signalDrop_Total(drop, last) == drop

\* signalDrop: the delta it logs
signalDrop(drop, last) == drop - last

\* drop, err = sub.Dropped(); if err != nil { continue }
\* if drop != last { w.signalDrop(...) }; last = drop; then the select is entered
MonitorDropped(s) ==
    /\ mpc[s] = "dropped"
    /\ IF subFailing[s]
       THEN /\ mdrop' = [mdrop EXCEPT ![s] = DroppedOnError]
            /\ mpc' = [mpc EXCEPT ![s] = "continue"]
            /\ UNCHANGED <<mlast, msample, mquiet, dropEvents, mtimer, mcont>>
       ELSE /\ mdrop' = [mdrop EXCEPT ![s] = dropped[s]]
            /\ dropEvents' = [dropEvents EXCEPT ![s] =
                                IF dropped[s] # mlast[s]
                                THEN Append(@, signalDrop(dropped[s], mlast[s]))
                                ELSE @]
            /\ mlast' = [mlast EXCEPT ![s] = dropped[s]]
            /\ mquiet' = [mquiet EXCEPT ![s] = @ \/ dropped[s] = msample[s]]
            /\ msample' = [msample EXCEPT ![s] = dropped[s]]
            /\ mpc' = [mpc EXCEPT ![s] = "select"]
            /\ mtimer' = [mtimer EXCEPT ![s] = 0]
            /\ mcont' = [mcont EXCEPT ![s] = 0]
    /\ lateBusOps' = Late
    /\ UNCHANGED <<c, feed, rules, now, lifeVars, busVars, feedVars, workerVars,
                   stats, observed, statVars>>

\* continue: back to the head of the loop, without waiting
MonitorContinue(s) ==
    /\ mpc[s] = "continue"
    /\ mpc' = [mpc EXCEPT ![s] = "poll"]
    /\ mcont' = [mcont EXCEPT ![s] = IF @ < MaxContinue THEN @ + 1 ELSE @]
    /\ UNCHANGED <<c, feed, rules, now, lifeVars, busVars, feedVars, workerVars,
                   stats, mlast, mdrop, mtimer, msample, mquiet, dropEvents, observed,
                   statVars, lateBusOps>>

\* case <-time.After(time.Second)
MonitorTick(s) ==
    /\ mpc[s] = "select"
    /\ mtimer[s] >= MonitorWake
    /\ mpc' = [mpc EXCEPT ![s] = "poll"]
    /\ mtimer' = [mtimer EXCEPT ![s] = 0]
    /\ UNCHANGED <<c, feed, rules, now, lifeVars, busVars, feedVars, workerVars,
                   stats, mlast, mdrop, mcont, msample, mquiet, dropEvents, observed,
                   statVars, lateBusOps>>

\* case <-w.stop: sub.Unsubscribe(); return (deferred w.wg.Done())
MonitorStop(s) ==
    /\ mpc[s] = "select"
    /\ stop
    /\ sub' = [sub EXCEPT ![s] = "unsubscribed"]
    /\ mpc' = [mpc EXCEPT ![s] = "done"]
    /\ wg' = wg - 1
    /\ lateBusOps' = Late
    /\ mtimer' = [mtimer EXCEPT ![s] = 0]
    /\ UNCHANGED <<c, feed, rules, now, mainPc, err, subIdx, nc, stop, closes,
                   subFailing, dropped, feedVars, workerVars, stats, mlast, mdrop,
                   mcont, msample, mquiet, dropEvents, observed, statVars>>

(***************************************************************************)
(* startStatistician (writer.go 295-309).                                  *)
(***************************************************************************)
\* w.nc.Publish(w.c.NATSSubjectMonitor, lines), then the select is entered
StatPublish ==
    /\ spc = "publish"
    /\ spc' = "select"
    /\ stimer' = 0
    /\ lateBusOps' = Late
    /\ UNCHANGED <<c, feed, rules, now, lifeVars, busVars, feedVars, workerVars,
                   stats, monitorVars>>

\* case <-time.After(3 * time.Second)
StatTick ==
    /\ spc = "select"
    /\ stimer >= StatWake
    /\ spc' = "publish"
    /\ stimer' = 0
    /\ UNCHANGED <<c, feed, rules, now, lifeVars, busVars, feedVars, workerVars,
                   stats, monitorVars, lateBusOps>>

\* case <-w.stop: return (deferred w.wg.Done())
StatStop ==
    /\ spc = "select"
    /\ stop
    /\ spc' = "done"
    /\ wg' = wg - 1
    /\ stimer' = 0
    /\ UNCHANGED <<c, feed, rules, now, mainPc, err, subIdx, nc, stop, closes,
                   busVars, feedVars, workerVars, stats, monitorVars, lateBusOps>>

(***************************************************************************)
(* StartWriter (writer.go 61-132).  A step that fails returns the error;   *)
(* the deferred function then calls w.Stop().                              *)
(***************************************************************************)
\* w.rules, err = filter.RuleSetFromConfig(c)
StartRules ==
    /\ mainPc = "rules"
    /\ \E ok \in BOOLEAN :
         /\ mainPc' = IF ok THEN "connect" ELSE "deferred"
         /\ err' = ~ok
    /\ UNCHANGED <<c, feed, rules, now, subIdx, nc, stop, closes, wg, busVars,
                   feedVars, workerVars, stats, monitorVars, statVars, lateBusOps>>

\* w.nc, err = nats.Connect(c.NATSAddress)
StartConnect ==
    /\ mainPc = "connect"
    /\ \E ok \in BOOLEAN :
         /\ mainPc' = IF ok THEN "workers" ELSE "deferred"
         /\ err' = ~ok
         /\ nc' = IF ok THEN "open" ELSE nc
    /\ UNCHANGED <<c, feed, rules, now, subIdx, stop, closes, wg, busVars,
                   feedVars, workerVars, stats, monitorVars, statVars, lateBusOps>>

\* jobs := make(chan *nats.Msg, 1024); w.wg.Add(w.c.Workers); go w.worker(jobs) ...
StartWorkers ==
    /\ mainPc = "workers"
    /\ wg' = wg + c.Workers
    /\ wpc' = [w \in Workers |-> IF w <= c.Workers THEN "select" ELSE wpc[w]]
    /\ wtimer' = [w \in Workers |-> 0]
    /\ subIdx' = 1
    /\ mainPc' = "subscribe"
    /\ UNCHANGED <<c, feed, rules, now, err, nc, stop, closes, busVars, feedVars,
                   batch, bunits, lastUnits, wjob, posted, lastResp,
                   stats, monitorVars, statVars, lateBusOps>>

\* sub, err := w.nc.Subscribe(subject, func(msg *nats.Msg) { jobs <- msg })
StartSubscribe ==
    /\ mainPc = "subscribe"
    /\ \E ok \in BOOLEAN :
         /\ mainPc' = IF ok THEN "limits" ELSE "deferred"
         /\ err' = ~ok
         /\ sub' = IF ok THEN [sub EXCEPT ![subIdx] = "active"] ELSE sub
    /\ UNCHANGED <<c, feed, rules, now, subIdx, nc, stop, closes, wg, subFailing,
                   dropped, feedVars, workerVars, stats, monitorVars, statVars,
                   lateBusOps>>

\* sub.SetPendingLimits(-1, maxPendingBytes); w.wg.Add(1); go w.monitorSub(sub)
StartLimits ==
    /\ mainPc = "limits"
    /\ \E ok \in BOOLEAN :
         IF ok
         THEN /\ wg' = wg + 1
              /\ mpc' = [mpc EXCEPT ![subIdx] = "init"]
              /\ subIdx' = subIdx + 1
              /\ mainPc' = IF subIdx = c.Subjects THEN "flush" ELSE "subscribe"
              /\ err' = err
         ELSE /\ mainPc' = "deferred"
              /\ err' = TRUE
              /\ UNCHANGED <<wg, mpc, subIdx>>
    /\ UNCHANGED <<c, feed, rules, now, nc, stop, closes, busVars, feedVars,
                   workerVars, stats, mlast, mdrop, mtimer, mcont, msample, mquiet, dropEvents,
                   observed, statVars, lateBusOps>>

\* w.nc.Flush(); w.wg.Add(1); go w.startStatistician(); return w, nil
StartFlush ==
    /\ mainPc = "flush"
    /\ \E ok \in BOOLEAN :
         IF ok
         THEN /\ wg' = wg + 1
              /\ spc' = "publish"
              /\ mainPc' = "running"
              /\ err' = err
         ELSE /\ mainPc' = "deferred"
              /\ err' = TRUE
              /\ UNCHANGED <<wg, spc>>
    /\ UNCHANGED <<c, feed, rules, now, subIdx, nc, stop, closes, busVars, feedVars,
                   workerVars, stats, monitorVars, stimer, lateBusOps>>

(***************************************************************************)
(* Stop (writer.go 137-143), called by the owner of a running writer or by *)
(* StartWriter's deferred function.                                        *)
(***************************************************************************)
\* a variant that closes the connection before waiting (used by a mutant only)
StopClose_NcFirst ==
    /\ mainPc \in {"running", "deferred"}
    /\ stop' = TRUE
    /\ closes' = closes + 1
    /\ nc' = IF nc = "nil" THEN nc ELSE "closed"
    /\ mainPc' = "wait"
    /\ UNCHANGED <<c, feed, rules, now, err, subIdx, wg, busVars, feedVars,
                   workerVars, stats, monitorVars, statVars, lateBusOps>>

\* close(w.stop)
StopClose ==
    /\ mainPc \in {"running", "deferred"}
    /\ stop' = TRUE
    /\ closes' = closes + 1
    /\ mainPc' = "wait"
    /\ UNCHANGED <<c, feed, rules, now, err, subIdx, nc, wg, busVars, feedVars,
                   workerVars, stats, monitorVars, statVars, lateBusOps>>

\* w.wg.Wait() returns
StopWait ==
    /\ mainPc = "wait"
    /\ wg = 0
    /\ mainPc' = "ncclose"
    /\ UNCHANGED <<c, feed, rules, now, err, subIdx, nc, stop, closes, wg, busVars,
                   feedVars, workerVars, stats, monitorVars, statVars, lateBusOps>>

\* if w.nc != nil { w.nc.Close() }; Stop returns, and with it a failed StartWriter
StopNcClose ==
    /\ mainPc = "ncclose"
    /\ nc' = IF nc = "nil" THEN nc ELSE "closed"
    /\ mainPc' = IF err THEN "failed" ELSE "stopped"
    /\ UNCHANGED <<c, feed, rules, now, err, subIdx, stop, closes, wg, busVars,
                   feedVars, workerVars, stats, monitorVars, statVars, lateBusOps>>

(***************************************************************************)
(* Initial states.                                                         *)
(***************************************************************************)
\* a configuration with the usual batch thresholds
Cfg(nw, ns) ==
    [Workers |-> nw, Subjects |-> ns, BatchMessages |-> BatchMessages,
     BatchMaxBytes |-> BatchMaxBytes, BatchMaxAge |-> BatchMaxAge]

Configs == {Cfg(nw, ns) : nw \in 1..MaxWorkers, ns \in 1..MaxSubjects}

LifeConfigs == {cfg \in Configs : cfg.Workers + cfg.Subjects <= MaxLoops}

RECURSIVE SeqsUpTo(_)
SeqsUpTo(n) ==
    IF n = 0 THEN {<<>>}
    ELSE SeqsUpTo(n - 1) \cup
         {Append(q, ch) : q \in {x \in SeqsUpTo(n - 1) : Len(x) = n - 1}, ch \in Chars}

\* the payloads of the worker-pool runs
PoolPayloads == {<<>>, <<"a">>, <<"a", NL, "b", NL>>}

\* the payload and the response of the lifecycle runs
LifePayloads == {<<"a", NL>>}

LifeResponses == {[neterr |-> FALSE, status |-> 500]}

\* NewWriter's fields before StartWriter's first step, and nothing started
InitCommon ==
    /\ now = 0
    /\ err = FALSE
    /\ stop = FALSE
    /\ closes = 0
    /\ jobs = <<>>
    /\ delivered = 0
    /\ cb = [s \in Subjects |-> NoMsg]
    /\ subFailing = [s \in Subjects |-> FALSE]
    /\ dropped = [s \in Subjects |-> 0]
    /\ batch = [w \in Workers |-> newBatchBuffer]
    /\ bunits = [w \in Workers |-> <<>>]
    /\ wtimer = [w \in Workers |-> 0]
    /\ lastUnits = [w \in Workers |-> <<>>]
    /\ wjob = [w \in Workers |-> NoMsg]
    /\ posted = [w \in Workers |-> <<>>]
    /\ lastResp = NoResp
    /\ stats = StatsNew
    /\ mlast = [s \in Subjects |-> 0]
    /\ mdrop = [s \in Subjects |-> 0]
    /\ mtimer = [s \in Subjects |-> 0]
    /\ mcont = [s \in Subjects |-> 0]
    /\ msample = [s \in Subjects |-> 0]
    /\ mquiet = [s \in Subjects |-> FALSE]
    /\ dropEvents = [s \in Subjects |-> <<>>]
    /\ observed = {}
    /\ stimer = 0
    /\ lateBusOps = FALSE

\* StartWriter is entered
Init ==
    /\ InitCommon
    /\ c \in LifeConfigs
    /\ feed = [payloads |-> LifePayloads, msgs |-> 1,
               drops |-> {}, pendings |-> {MaxPendingSeen},
               responses |-> LifeResponses, faults |-> TRUE]
    /\ rules = {}
    /\ mainPc = "rules"
    /\ subIdx = 0
    /\ nc = "nil"
    /\ wg = 0
    /\ sub = [s \in Subjects |-> "none"]
    /\ wpc = [w \in Workers |-> "unstarted"]
    /\ mpc = [s \in Subjects |-> "unstarted"]
    /\ spc = "unstarted"

\* StartWriter has returned w, nil and none of its goroutines has run yet
Started ==
    /\ InitCommon
    /\ mainPc = "running"
    /\ subIdx = c.Subjects + 1
    /\ nc = "open"
    /\ wg = c.Workers + c.Subjects + 1
    /\ sub = [s \in Subjects |-> IF s <= c.Subjects THEN "active" ELSE "none"]
    /\ wpc = [w \in Workers |-> IF w <= c.Workers THEN "select" ELSE "unstarted"]
    /\ mpc = [s \in Subjects |-> IF s <= c.Subjects THEN "init" ELSE "unstarted"]
    /\ spc = "publish"

InitPool ==
    /\ c \in {Cfg(nw, 1) : nw \in 1..MaxWorkers}
    /\ feed = [payloads |-> PoolPayloads, msgs |-> MaxMsgs,
               drops |-> {}, pendings |-> {}, responses |-> Responses,
               faults |-> TRUE]
    /\ rules \in {{}, {"a"}, {"a", "b"}}
    /\ Started

\* one monitor, whose subscription drops messages
InitDrops ==
    /\ c = Cfg(1, 1)
    /\ feed = [payloads |-> {}, msgs |-> 0,
               drops |-> DropSteps, pendings |-> 0..MaxPendingSeen,
               responses |-> {}, faults |-> FALSE]
    /\ rules = {}
    /\ Started

\* several monitors, and the gauge they share
InitGauge ==
    /\ c \in {Cfg(1, ns) : ns \in 1..MaxSubjects}
    /\ feed = [payloads |-> {}, msgs |-> 0,
               drops |-> {}, pendings |-> 0..MaxPendingSeen,
               responses |-> {}, faults |-> FALSE]
    /\ rules = {}
    /\ Started

\* one message of any payload is delivered to a one-worker writer
InitFilter ==
    /\ c = Cfg(1, 1)
    /\ feed = [payloads |-> SeqsUpTo(MaxPayloadLen), msgs |-> 1,
               drops |-> {}, pendings |-> {}, responses |-> Responses,
               faults |-> TRUE]
    /\ rules \in SUBSET RuleBytes
    /\ Started

(***************************************************************************)
(* Specifications.                                                         *)
(***************************************************************************)
StartNext ==
    \/ StartRules
    \/ StartConnect
    \/ StartWorkers
    \/ StartSubscribe
    \/ StartLimits
    \/ StartFlush

StopNext ==
    \/ StopClose
    \/ StopWait
    \/ StopNcClose

FeedNext ==
    \/ \E s \in Subjects : Deliver(s)
    \/ \E s \in Subjects : CallbackSend(s)

WorkerNext ==
    \/ \E w \in Workers : WorkerRecv(w)
    \/ \E w \in Workers : WorkerJob(w)
    \/ \E w \in Workers : WorkerTick(w)
    \/ \E w \in Workers : WorkerCheck(w)
    \/ \E w \in Workers : WorkerSend(w)

MonitorNext ==
    \/ \E s \in Subjects : MonitorInit(s)
    \/ \E s \in Subjects : MonitorMaxPending(s)
    \/ \E s \in Subjects : MonitorDropped(s)
    \/ \E s \in Subjects : MonitorContinue(s)
    \/ \E s \in Subjects : MonitorTick(s)

BusNext ==
    \/ \E s \in Subjects : BusDrop(s)
    \/ \E s \in Subjects : BusFail(s)

StatNext ==
    \/ StatPublish
    \/ StatTick

ExitNext ==
    \/ \E w \in Workers : WorkerStop(w)
    \/ \E s \in Subjects : MonitorStop(s)
    \/ StatStop

\* the whole writer, from the call of StartWriter (in these runs the bus
\* delivers one message and the subscriptions drop nothing)
Next ==
    \/ Tick
    \/ StartNext
    \/ StopNext
    \/ \E s \in Subjects : Deliver(s)
    \/ WorkerNext
    \/ MonitorNext
    \/ \E s \in Subjects : BusFail(s)
    \/ StatNext
    \/ ExitNext

Spec == Init /\ [][Next]_vars

(***************************************************************************)
(* The same writer, one worker and one subject, under the fairness the Go  *)
(* scheduler gives: every goroutine that can take a step eventually takes  *)
(* one, and a select with several ready cases picks each of them sooner or *)
(* later (the choice is uniformly random), hence strong fairness for the   *)
(* <-w.stop cases.  Nothing is assumed of the clock, of the bus or of the  *)
(* owner's decision to call Stop.                                          *)
(***************************************************************************)
InitFair ==
    /\ Init
    /\ c = Cfg(1, 1)

Fairness ==
    /\ WF_vars(StartNext)
    /\ WF_vars(mainPc = "deferred" /\ StopClose)
    /\ WF_vars(StopWait)
    /\ WF_vars(StopNcClose)
    /\ \A w \in Workers : WF_vars(WorkerRecv(w) \/ WorkerJob(w) \/ WorkerTick(w) \/ WorkerCheck(w) \/ WorkerSend(w))
    /\ \A w \in Workers : SF_vars(WorkerStop(w))
    /\ \A s \in Subjects : WF_vars(MonitorInit(s) \/ MonitorMaxPending(s) \/ MonitorDropped(s)
                                    \/ MonitorContinue(s) \/ MonitorTick(s))
    /\ \A s \in Subjects : SF_vars(MonitorStop(s))
    /\ WF_vars(StatPublish \/ StatTick)
    /\ SF_vars(StatStop)

FairSpec == InitFair /\ [][Next]_vars /\ Fairness

\* the worker pool of a running writer
PoolNext ==
    \/ Tick
    \/ FeedNext
    \/ WorkerNext

SpecPool == InitPool /\ [][PoolNext]_vars

\* one payload through the line filter of a running writer
FilterNext ==
    \/ Tick
    \/ \E s \in Subjects : Deliver(s)
    \/ WorkerNext

SpecFilter == InitFilter /\ [][FilterNext]_vars

\* one monitor of a running writer and its subscription
DropsNext ==
    \/ Tick
    \/ MonitorNext
    \/ BusNext

SpecDrops == InitDrops /\ [][DropsNext]_vars

\* the monitors of a running writer and the max_pending gauge
GaugeNext ==
    \/ Tick
    \/ MonitorNext
    \/ \E s \in Subjects : BusFail(s)

SpecGauge == InitGauge /\ [][GaugeNext]_vars

\* ScenarioMessages one-line messages are delivered to a running writer
\* whose count threshold is ScenarioMessages and whose size and age
\* thresholds they do not reach; no Write fails
ScenarioPayloads == {<<"a", NL>>}

ScenarioResponses ==
    {[neterr |-> FALSE, status |-> 299], [neterr |-> FALSE, status |-> 500]}

InitScenario ==
    /\ c \in {[Workers |-> nw, Subjects |-> 1, BatchMessages |-> ScenarioMessages,
               BatchMaxBytes |-> ScenarioMaxBytes, BatchMaxAge |-> ScenarioMaxAge] :
              nw \in 1..MaxWorkers}
    /\ feed = [payloads |-> ScenarioPayloads, msgs |-> ScenarioMessages,
               drops |-> {}, pendings |-> {}, responses |-> ScenarioResponses,
               faults |-> FALSE]
    /\ rules \in {{}, {"a"}}
    /\ Started

ScenarioNext ==
    \/ Tick
    \/ FeedNext
    \/ WorkerNext

SpecScenario == InitScenario /\ [][ScenarioNext]_vars

\* the worker pool of a running writer whose owner may call Stop: two
\* messages of one line each, POSTs that succeed or fail, Writes that may fail
ShutdownPayloads == {<<"a", NL>>}

InitShutdown ==
    /\ c \in {Cfg(nw, 1) : nw \in 1..MaxWorkers}
    /\ feed = [payloads |-> ShutdownPayloads, msgs |-> MaxMsgs,
               drops |-> {}, pendings |-> {}, responses |-> ScenarioResponses,
               faults |-> TRUE]
    /\ rules = {}
    /\ Started

ShutdownNext ==
    \/ Tick
    \/ FeedNext
    \/ WorkerNext
    \/ StopClose
    \/ \E w \in Workers : WorkerStop(w)

SpecShutdown == InitShutdown /\ [][ShutdownNext]_vars

\* a running writer with one worker and one subject, to which the bus
\* delivers more messages than the jobs channel holds and whose owner may
\* call Stop, under the fairness of FairSpec; a callback blocked in
\* jobs <- msg completes when the channel has room
InitBlocked ==
    /\ c = Cfg(1, 1)
    /\ feed = [payloads |-> LifePayloads, msgs |-> JobsCap + 1,
               drops |-> {}, pendings |-> {MaxPendingSeen},
               responses |-> LifeResponses, faults |-> FALSE]
    /\ rules = {}
    /\ Started

BlockedNext ==
    \/ Tick
    \/ StopNext
    \/ FeedNext
    \/ WorkerNext
    \/ \E s \in Subjects : MonitorInit(s)
    \/ \E s \in Subjects : MonitorMaxPending(s)
    \/ \E s \in Subjects : MonitorDropped(s)
    \/ \E s \in Subjects : MonitorTick(s)
    \/ StatNext
    \/ ExitNext

FairBlockedSpec ==
    /\ InitBlocked
    /\ [][BlockedNext]_vars
    /\ Fairness
    /\ \A s \in Subjects : WF_vars(CallbackSend(s))

(***************************************************************************)
(* Claims.                                                                 *)
(***************************************************************************)
\* the flush decision as spec.md section 4.1 states it
FlushConditions(b, t) ==
    \/ b.writes >= c.BatchMessages
    \/ Len(b.buf) >= c.BatchMaxBytes
    \/ (b.writes > 0 /\ t - b.created >= c.BatchMaxAge)

Flushed(w) == wpc[w] = "send" /\ wpc'[w] # "send"

Empty(b) == b.writes = 0 /\ Len(b.buf) = 0

\* C2: every flush attempt that fails (transport error or failure status)
\* increments failed_writes by exactly one, and right after any flush attempt
\* the worker's accumulator is empty.
C2_FailedFlushCounted ==
    [][\A w \in Workers :
          Flushed(w) =>
              /\ FailedAttempt(lastResp') =>
                     stats'.failed_writes = stats.failed_writes + 1
              /\ Empty(batch'[w])]_vars

\* C3: a flush whose response has a status >= 300 increments failed_writes,
\* and one whose response has a status < 300 leaves it unchanged.
C3_StatusThreshold ==
    [][\A w \in Workers :
          (Flushed(w) /\ ~lastResp'.neterr) =>
              IF lastResp'.status >= 300
              THEN stats'.failed_writes = stats.failed_writes + 1
              ELSE stats'.failed_writes = stats.failed_writes]_vars

UnitsOf(q) == {q[i] : i \in 1..Len(q)}

\* C4: delivery is at-most-once: no unit is in the bodies of two POSTs, of one
\* worker or of two, and no unit that was POSTed is still buffered for a
\* later POST.
C4_AtMostOnce ==
    /\ \A w \in Workers : \A i, j \in 1..Len(posted[w]) :
           i # j => posted[w][i] # posted[w][j]
    /\ \A v, w \in Workers : v # w => UnitsOf(posted[v]) \cap UnitsOf(posted[w]) = {}
    /\ \A v, w \in Workers : UnitsOf(bunits[v]) \cap UnitsOf(posted[w]) = {}

\* two workers have each POSTed a unit, and a POST has failed
C4_Witness ==
    /\ \A w \in Workers : posted[w] # <<>>
    /\ stats.failed_writes > 0

StopCalled == mainPc \in {"wait", "ncclose"}

StopReturned == mainPc \in {"stopped", "failed"}

\* C5: once Stop is called, it eventually returns.
C5_StopReturns == StopCalled ~> StopReturned

Exited(pc) == pc \in {"unstarted", "done"}

\* C6: Stop closes the shutdown signal exactly once; the connection is closed
\* only after every started worker, every started monitor (each having
\* unsubscribed) and the statistician have exited; no loop uses the bus after
\* the connection is closed.
C6_StopOrder ==
    /\ closes <= 1
    /\ (StopCalled \/ StopReturned) => closes = 1
    /\ nc = "closed" =>
          /\ \A w \in Workers : Exited(wpc[w])
          /\ \A s \in Subjects : Exited(mpc[s])
          /\ \A s \in Subjects : mpc[s] = "done" => sub[s] = "unsubscribed"
          /\ Exited(spc)
    /\ ~lateBusOps

\* Stop has returned on a writer that ran two monitors and the statistician
C6_Witness ==
    /\ mainPc = "stopped"
    /\ nc = "closed"
    /\ spc = "done"
    /\ \A s \in Subjects : mpc[s] = "done"
    /\ stats.write_requests > 0

\* C7: when a step of StartWriter fails, the Stop it runs returns, and with
\* it the error, every started component having exited and the connection,
\* if opened, being closed.
C7_FailedStartReturns ==
    (mainPc = "deferred") ~>
        (/\ mainPc = "failed"
         /\ \A w \in Workers : Exited(wpc[w])
         /\ \A s \in Subjects : Exited(mpc[s])
         /\ nc \in {"nil", "closed"})

\* C8: a monitor emits a drop event exactly when the dropped total it samples
\* differs from the one it sampled before, with delta drop - last, and at no
\* other step.
C8_DropEvents ==
    [][\A s \in Subjects :
          IF mpc[s] = "dropped" /\ mpc'[s] = "select" /\ dropped[s] # msample[s]
          THEN dropEvents'[s] = Append(dropEvents[s], dropped[s] - msample[s])
          ELSE dropEvents'[s] = dropEvents[s]]_vars

\* the samples 0, 5, 5, 12 (or 0, 5, 12, 12, or 0, 0, 5, 12 ...): two events
C8_Witness ==
    \E s \in Subjects :
        /\ dropEvents[s] = <<5, 7>>
        /\ mquiet[s]
        /\ msample[s] = 12

SetMax(S) == CHOOSE x \in S : \A y \in S : y <= x

\* C9: the max_pending gauge is the largest max-pending value any monitor
\* has observed so far (0 before the first), so it never decreases.
C9_GaugeIsMax == stats.max_pending = SetMax(observed \cup {0})

\* two monitors have sampled, and values below the gauge were observed
C9_Witness ==
    /\ observed = 0..MaxPendingSeen
    /\ stats.max_pending = MaxPendingSeen
    /\ \A s \in Subjects : mpc[s] \in {"dropped", "select"}

\* the lines of a payload, by where they end: after each newline, and at the
\* end of the payload when it does not end in a newline
LineEnds(p) ==
    {i \in 1..Len(p) : p[i] = NL} \cup
    (IF Len(p) > 0 /\ p[Len(p)] # NL THEN {Len(p)} ELSE {})

LineStart(p, e) ==
    1 + SetMax({f \in LineEnds(p) : f < e} \cup {0})

NthEnd(p, k) ==
    CHOOSE e \in LineEnds(p) : Cardinality({f \in LineEnds(p) : f <= e}) = k

Lines(p) ==
    [k \in 1..Cardinality(LineEnds(p)) |->
        SubSeq(p, LineStart(p, NthEnd(p, k)), NthEnd(p, k))]

Accept(line) == Lookup(line) # -1

\* C10: with rules, the units written for a payload are its lines (newline
\* kept) that Accept, in order, none of them empty; without rules, the
\* payload itself is the one unit.
C10_FilteredUnits ==
    \A w \in Workers :
        (wjob[w] # NoMsg /\ wpc[w] = "check") =>
            IF rules = {}
            THEN lastUnits[w] = <<wjob[w].data>>
            ELSE /\ lastUnits[w] = SelectSeq(Lines(wjob[w].data), Accept)
                 /\ \A i \in 1..Len(lastUnits[w]) : lastUnits[w][i] # <<>>

\* a payload of three lines, the last without a newline, of which the
\* rules accept the first and the last
C10_Witness ==
    \E w \in Workers :
        /\ rules = {"a"}
        /\ wpc[w] = "check"
        /\ wjob[w].data = <<"a", NL, NL, "a">>
        /\ lastUnits[w] = << <<"a", NL>>, <<"a">> >>

\* the units of the first n jobs, one line each, in the order of delivery
OneLineUnits(n) == [k \in 1..n |-> <<k, 1>>]

Idle(w) == wpc[w] \in {"select", "unstarted"}

StartsFlush(w) == wpc[w] = "check" /\ wpc'[w] = "send"

C13_OnlyStopEndsWorker ==
    [][\A w \in Workers :
          /\ (wpc[w] # "done" /\ wpc'[w] = "done") => (wpc[w] = "select" /\ stop)
          /\ (Flushed(w) /\ sendBatch(lastResp')) => wpc'[w] = "select"
          /\ (wpc[w] = "select" /\ wpc'[w] = "job") =>
                 (jobs # <<>> /\ wjob'[w] = Head(jobs) /\ jobs' = Tail(jobs))]_vars

\* a worker whose Write of the first job's line failed, and one of whose
\* POSTs failed, has since received the second job and POSTed its line
C13_Witness ==
    /\ c.Workers = 1
    /\ stats.failed_writes > 0
    /\ stats.received = 2
    /\ posted[1] = << <<2, 1>> >>
    /\ wpc[1] = "select"

\* C14: the step by which a worker takes the shutdown event makes no POST and
\* counts no write request, whatever its accumulator holds; after it, the
\* worker never POSTs, so what was buffered is never sent.
C14_NoFlushOnStop ==
    [][\A w \in Workers :
          /\ (wpc[w] = "select" /\ wpc'[w] = "done") =>
                 /\ posted' = posted
                 /\ stats' = stats
          /\ wpc[w] = "done" =>
                 /\ wpc'[w] = "done"
                 /\ posted'[w] = posted[w]
                 /\ \A i \in 1..Len(bunits[w]) :
                        \A v \in Workers : bunits[w][i] \notin UnitsOf(posted'[v])]_vars

\* a worker has exited with a line in its accumulator
C14_Witness ==
    \E w \in Workers :
        /\ wpc[w] = "done"
        /\ bunits[w] # <<>>
        /\ batch[w].writes > 0

\* C15: in every state of every worker's accumulator, writeCount = 0 if and
\* only if the buffered bytes are empty, if and only if createdAt is unset.
C15_AccumulatorInvariant ==
    \A w \in Workers :
        /\ batch[w].writes = 0 <=> batch[w].buf = <<>>
        /\ batch[w].buf = <<>> <=> batch[w].created = ZeroTime

\* C16: a monitor whose query returned an error does not query again before
\* it has waited in its select (tick / shutdown): whenever it is about to
\* query, no failed query lies between its last wait and now.
C16_RetryAfterTick ==
    \A s \in Subjects : mpc[s] = "poll" => mcont[s] = 0

\* jobs taken off the channel so far: those handed to the callback, less
\* those still in the channel and those a blocked callback holds
Dequeued ==
    delivered - Len(jobs) - Cardinality({s \in Subjects : cb[s] # NoMsg})

\* workers that have received a job and not yet counted it
InHand == {w \in Workers : wpc[w] = "job"}

\* the jobs a worker holds, has folded into its batch or has POSTed
JobsOf(w) ==
    {u[1] : u \in UnitsOf(bunits[w]) \cup UnitsOf(posted[w])} \cup
    (IF wjob[w] # NoMsg THEN {wjob[w].id} ELSE {})

\* C17, as stated: at all times received equals the number of jobs dequeued
\* by all workers.
C17_ReceivedIsDequeued == stats.received = Dequeued

\* C17, amended: no job is claimed by two workers, and received equals the
\* number of jobs dequeued less the jobs a worker has received and not yet
\* counted (at most one per worker).
C17_ReceivedOncePerJob ==
    /\ \A v, w \in Workers : v # w => JobsOf(v) \cap JobsOf(w) = {}
    /\ stats.received = Dequeued - Cardinality(InHand)

\* two workers have each claimed a job; one has counted its job, the other
\* has not yet
C17_Witness ==
    /\ wpc[1] = "job"
    /\ wpc[2] = "check"
    /\ wjob[1].id # wjob[2].id
    /\ stats.received = 1

\* C18: every invocation of the delivery callback eventually returns: a
\* callback blocked in its send on the full jobs channel eventually completes it.
C18_CallbackReturns ==
    \A s \in Subjects : (cb[s] # NoMsg) ~> (cb[s] = NoMsg)

\* the concatenation of the units that the tags name, in the order of the tags
RECURSIVE ConcatUnits(_, _)
ConcatUnits(units, tags) ==
    IF tags = <<>> THEN <<>>
    ELSE units[Head(tags)[2]] \o ConcatUnits(units, Tail(tags))

\* what a step appended to a worker's list of buffered units
Added(w) == SubSeq(bunits'[w], Len(bunits[w]) + 1, Len(bunits'[w]))

\* C19: within a worker, a job's units are appended to the buffered bytes
\* after those buffered before, in the order they were written; the body of
\* a POST is those bytes, it is what was accumulated since the previous POST,
\* and POSTs follow one another in the order of accumulation.
C19_WorkerFifo ==
    [][\A w \in Workers :
          /\ (wpc[w] = "job" /\ wpc'[w] = "check") =>
                 /\ SubSeq(bunits'[w], 1, Len(bunits[w])) = bunits[w]
                 /\ \A i, j \in 1..Len(Added(w)) :
                        i < j => Added(w)[i][2] < Added(w)[j][2]
                 /\ \A i \in 1..Len(Added(w)) : Added(w)[i][1] = wjob[w].id
                 /\ Data(batch'[w]) =
                        Data(batch[w]) \o ConcatUnits(lastUnits'[w], Added(w))
          /\ Flushed(w) =>
                 /\ posted'[w] = posted[w] \o bunits[w]
                 /\ bunits'[w] = <<>>
                 /\ Data(batch'[w]) = <<>>
          /\ (wpc[w] # "job" /\ ~Flushed(w)) =>
                 /\ bunits'[w] = bunits[w]
                 /\ posted'[w] = posted[w]
                 /\ Data(batch'[w]) = Data(batch[w])]_vars

\* a worker holds a line of one job followed by two different lines of the
\* next job, and is about to POST them
C19_Witness ==
    \E w \in Workers :
        /\ wpc[w] = "send"
        /\ bunits[w] = << <<1, 1>>, <<2, 1>>, <<2, 2>> >>
        /\ Data(batch[w]) = <<"a", "a", NL, "b", NL>>

\* C20: whenever a worker is suspended in its select, its accumulator is
\* below both thresholds: writeCount < maxCount and byteSize < maxBytes.
C20_IdleBelowThresholds ==
    \A w \in Workers :
        wpc[w] = "select" =>
            /\ Writes(batch[w]) < c.BatchMessages
            /\ Size(batch[w]) < c.BatchMaxBytes

\* a job of two lines was folded into an accumulator that held a line: both
\* thresholds are exceeded until the flush that follows
C20_Witness ==
    \E w \in Workers :
        /\ wpc[w] = "check"
        /\ Writes(batch[w]) > c.BatchMessages
        /\ Size(batch[w]) > c.BatchMaxBytes

====
